---- MODULE Spec2Model ----
(***************************************************************************)
(* Model of dsp_db/init_db.py: initialisation and migration of the SQLite  *)
(* file of dsp_db.  main() is modelled statement by statement; every SQL   *)
(* statement may raise sqlite3.Error, and runs of main() follow one        *)
(* another against the same file.                                          *)
(***************************************************************************)
EXTENDS Integers, FiniteSets, Sequences, TLC

\* ---------------------------------------------------------------- bounds
MaxRuns == 2
MaxFaults == 2
MaxUsers == 1

\* ---------------------------------------------------------------- values
Null == "NULL"

SeedKeys == <<"project_name", "version", "author", "description">>
SeedValues == <<"dsp_db", "0.1.0", "John Doe", "">>

AppInfoCols ==
    [id |-> FALSE, key |-> TRUE, value |-> FALSE, created_at |-> FALSE]

\* mutant: CREATE TABLE users without the authentication columns
UsersColsNoAuth ==
    [id |-> FALSE, username |-> TRUE, email |-> TRUE, created_at |-> FALSE]

\* column name |-> NOT NULL flag, as PRAGMA table_info reports it
UsersColsFull ==
    [id |-> FALSE, username |-> TRUE, email |-> TRUE, password_hash |-> TRUE,
     last_login |-> FALSE, created_at |-> FALSE]

\* users as _migrate_existing_db expects to find it at worst: every column but
\* the two it adds
UsersColsLegacy ==
    [c \in DOMAIN UsersColsFull \ {"password_hash", "last_login"} |-> UsersColsFull[c]]

IdxUsername == [name |-> "idx_users_username", tbl |-> "users", col |-> "username"]
IdxEmail == [name |-> "idx_users_email", tbl |-> "users", col |-> "email"]

\* ------------------------------------------------------- the database file
NoTables == [t \in {} |-> {}]

NoFile == [exists |-> FALSE, tab |-> NoTables, idx |-> {}, seq |-> 0]
EmptyDb == [exists |-> TRUE, tab |-> NoTables, idx |-> {}, seq |-> 0]

TableExists(db, t) == t \in DOMAIN db.tab

ColumnExists(db, t, c) == TableExists(db, t) /\ c \in DOMAIN db.tab[t].cols

IndexExists(db, n) == \E i \in db.idx : i.name = n

\* CREATE TABLE IF NOT EXISTS t (cols)
CreateTableIfNotExists(db, t, cols) ==
    IF TableExists(db, t) THEN db
    ELSE [db EXCEPT !.tab = (t :> [cols |-> cols, rows |-> {}]) @@ @]

\* mutant: CREATE INDEX without IF NOT EXISTS fails on an index that exists
CanCreateIndexPlain(db, i) == ~IndexExists(db, i.name) /\ ColumnExists(db, i.tbl, i.col)

\* CREATE INDEX IF NOT EXISTS i ON tbl(col); the caller checks CanCreateIndex
CanCreateIndex(db, i) == IndexExists(db, i.name) \/ ColumnExists(db, i.tbl, i.col)

\* mutant: the index is never created
CreateIndexSkipped(db, i) == db

CreateIndexIfNotExists(db, i) ==
    IF IndexExists(db, i.name) THEN db ELSE [db EXCEPT !.idx = @ \cup {i}]

\* ALTER TABLE t ADD COLUMN c <type>: a nullable column, NULL in every row
CanAddColumn(db, t, c) == TableExists(db, t) /\ ~ColumnExists(db, t, c)

\* mutant: the column is added by rebuilding the table, without its rows
AddColumnRebuild(db, t, c) ==
    [db EXCEPT !.tab[t] = [cols |-> (c :> FALSE) @@ @.cols, rows |-> {}]]

AddColumn(db, t, c) ==
    [db EXCEPT !.tab[t] =
        [cols |-> (c :> FALSE) @@ @.cols,
         rows |-> {(c :> Null) @@ r : r \in @.rows}]]

\* UPDATE users SET password_hash = COALESCE(password_hash, '')
Coalesce(v, d) == IF v = Null THEN d ELSE v

\* mutant: no backfill
BackfillSkipped(db) == db

BackfillPasswordHash(db) ==
    [db EXCEPT !.tab["users"].rows =
        {[r EXCEPT !["password_hash"] = Coalesce(@, "")] : r \in @}]

\* INSERT OR REPLACE INTO app_info (key, value) VALUES (k, v): the row whose
\* UNIQUE key conflicts is deleted, the new row takes the next AUTOINCREMENT id
CanInsertAppInfo(db) ==
    /\ TableExists(db, "app_info")
    /\ {"key", "value"} \subseteq DOMAIN db.tab["app_info"].cols

\* mutant: plain INSERT on a table without the UNIQUE constraint
InsertOnly(db, k, v, now) ==
    [db EXCEPT
        !.tab["app_info"].rows =
            @ \cup {[id |-> db.seq + 1, key |-> k, value |-> v, created_at |-> now]},
        !.seq = @ + 1]

\* mutant: the insert replaces every row of the table
InsertReplacingAll(db, k, v, now) ==
    [db EXCEPT
        !.tab["app_info"].rows =
            {[id |-> db.seq + 1, key |-> k, value |-> v, created_at |-> now]},
        !.seq = @ + 1]

InsertOrReplace(db, k, v, now) ==
    [db EXCEPT
        !.tab["app_info"].rows =
            {r \in @ : r.key # k}
                \cup {[id |-> db.seq + 1, key |-> k, value |-> v, created_at |-> now]},
        !.seq = @ + 1]

\* ------------------------------------------------------------ the state
VARIABLES
    disk,          \* the database file as committed
    work,          \* the database as the open connection sees it
    conn,          \* TRUE while the connection is open
    inTxn,         \* TRUE while the connection has an open transaction
    pc,            \* position in main()
    db_exists,     \* main's db_exists flag
    exc,           \* TRUE while an exception propagates out of the try block
    ret,           \* how the run ended: "running", "return0", "return1", "raised"
    runs,          \* number of runs of main() started
    nfaults,       \* number of failures the environment injected so far
    vizDir,        \* the db_visualizer directory exists
    written,       \* files written by the current run
    table_count,   \* statistics gathered by the current run
    record_count,
    order,         \* kinds of steps of the current run, in order
    failed,        \* a statement of the current run failed
    pre,           \* the database file when the current run started
    prevClean,     \* the previous run returned 0 with no failed statement
    opened,        \* the current run opened the connection
    steps,         \* the statements the current run has executed
    failedKinds,   \* the kinds of statement that failed in the current run
    raced,         \* indexes another invocation created under the current run
    prevMigFailed  \* the previous run returned 0 with a failed migration step

vars == <<disk, work, conn, inTxn, pc, db_exists, exc, ret, runs, nfaults, vizDir,
          written, table_count, record_count, order, failed, pre, prevClean, opened,
          steps, failedKinds, raced, prevMigFailed>>

\* ------------------------------------------------------ initial database files
UserRow(cols, i) ==
    [c \in DOMAIN cols |->
        CASE c = "id" -> i
          [] c = "username" -> <<"user", i>>
          [] c = "email" -> <<"mail", i>>
          [] c = "created_at" -> 0
          [] c = "password_hash" -> "hash"
          [] OTHER -> Null]

UsersShapes ==
    {UsersColsFull} \cup
    {[c \in DOMAIN UsersColsLegacy \cup extra |->
         IF c \in extra THEN FALSE ELSE UsersColsLegacy[c]] :
       extra \in SUBSET {"password_hash", "last_login"}}

UsersTables ==
    {[cols |-> cols, rows |-> {UserRow(cols, i) : i \in 1..n}] :
        cols \in UsersShapes, n \in 0..MaxUsers}

AppInfoRow(i, k, v) == [id |-> i, key |-> k, value |-> v, created_at |-> 0]

AppInfoTables ==
    {[cols |-> AppInfoCols, rows |-> rows] :
        rows \in {{},
                  {AppInfoRow(1, "version", "0.0.9"), AppInfoRow(2, "theme", "dark")}}}

NotesTable ==
    [cols |-> [id |-> FALSE, body |-> FALSE],
     rows |-> {[id |-> 1, body |-> "note"]}]

InitialFiles ==
    {NoFile} \cup
    {[exists |-> TRUE,
      tab |-> [t \in DOMAIN ut \cup DOMAIN at \cup DOMAIN ot |->
                 IF t \in DOMAIN ut THEN ut[t]
                 ELSE IF t \in DOMAIN at THEN at[t] ELSE ot[t]],
      idx |-> ix,
      seq |-> IF "app_info" \in DOMAIN at
                THEN Cardinality(at["app_info"].rows) ELSE 0] :
        ut \in {NoTables} \cup {[t \in {"users"} |-> u] : u \in UsersTables},
        at \in {NoTables} \cup {[t \in {"app_info"} |-> a] : a \in AppInfoTables},
        ot \in {NoTables, [t \in {"notes"} |-> NotesTable]},
        ix \in SUBSET {IdxUsername, IdxEmail}}

Init ==
    /\ disk \in {f \in InitialFiles : f.idx # {} => TableExists(f, "users")}
    /\ work = NoFile
    /\ conn = FALSE
    /\ inTxn = FALSE
    /\ pc = "idle"
    /\ db_exists = FALSE
    /\ exc = FALSE
    /\ ret = "running"
    /\ runs = 0
    /\ nfaults = 0
    /\ vizDir = FALSE
    /\ written = {}
    /\ table_count = 0
    /\ record_count = 0
    /\ order = <<>>
    /\ failed = FALSE
    /\ pre = NoFile
    /\ prevClean = FALSE
    /\ opened = FALSE
    /\ steps = {}
    /\ failedKinds = {}
    /\ raced = {}
    /\ prevMigFailed = FALSE

\* ------------------------------------------------------------- helpers
\* the statements of _create_base_schema
BaseSteps ==
    {"base_app_info", "base_users", "base_idx_username", "base_idx_email",
     "base_seed1", "base_seed2", "base_seed3", "base_seed4"}

\* the guarded statements of _migrate_existing_db
MigSteps ==
    {"mig_add_password_hash", "mig_backfill", "mig_add_last_login", "mig_idx_username",
     "mig_idx_email", "mig_app_info", "mig_seed1", "mig_seed2", "mig_seed3", "mig_seed4"}

\* the calls of _table_exists, _column_exists and _index_exists
InspectSteps ==
    {"mig_users", "mig_has_password_hash", "mig_has_last_login", "mig_has_idx_username",
     "mig_has_idx_email", "mig_has_app_info"}

KindOf(p) ==
    CASE p \in BaseSteps -> "base"
      [] p \in MigSteps -> "migrate"
      [] p \in InspectSteps -> "inspect"
      [] p \in {"stat_tables", "stat_records"} -> p
      [] OTHER -> "other"

\* a statement can fail (sqlite3.Error) at most MaxFaults times in a behaviour
Faults == IF nfaults < MaxFaults THEN BOOLEAN ELSE {FALSE}

Note(kind) ==
    order' = IF order # <<>> /\ order[Len(order)] = kind THEN order
             ELSE Append(order, kind)

\* bookkeeping of one executed statement: f = the environment made it fail,
\* bad = it failed (for that or for a reason of its own)
Executed(kind, f, bad) ==
    /\ Note(kind)
    /\ nfaults' = IF f THEN nfaults + 1 ELSE nfaults
    /\ failed' = (failed \/ bad)
    /\ steps' = steps \cup {pc}
    /\ failedKinds' = IF bad THEN failedKinds \cup {KindOf(pc)} ELSE failedKinds

\* control after a statement: go on at nxt, or let the exception propagate to
\* the finally clause of main
Goto(nxt) == pc' = nxt /\ exc' = exc
Raise == pc' = "close" /\ exc' = TRUE

\* a schema statement (CREATE, ALTER): outside a transaction sqlite3 runs it in
\* autocommit mode, inside one it becomes part of the transaction
Schema(ok, db) ==
    /\ work' = IF ok THEN db ELSE work
    /\ disk' = IF ok /\ ~inTxn THEN db ELSE disk
    /\ inTxn' = inTxn

\* a data statement (INSERT, UPDATE): sqlite3 opens a transaction before it
Data(ok, db) ==
    /\ work' = IF ok THEN db ELSE work
    /\ disk' = disk
    /\ inTxn' = TRUE

ReadOnly == UNCHANGED <<work, disk, inTxn>>

Frame == UNCHANGED <<conn, db_exists, ret, runs, vizDir, written, table_count,
                     record_count, pre, prevClean, opened, raced, prevMigFailed>>

\* ----------------------------------------------------------------- main
\* mutant: the flag is read after connecting, when the file always exists
StartFlagAfterConnect ==
    /\ pc \in {"idle", "done"}
    /\ runs < MaxRuns
    /\ runs' = runs + 1
    /\ db_exists' = TRUE
    /\ pre' = disk
    /\ prevClean' = (ret = "return0" /\ ~failed)
    /\ ret' = "running"
    /\ written' = {}
    /\ table_count' = 0
    /\ record_count' = 0
    /\ order' = <<>>
    /\ failed' = FALSE
    /\ exc' = FALSE
    /\ opened' = FALSE
    /\ steps' = {}
    /\ failedKinds' = {}
    /\ raced' = {}
    /\ prevMigFailed' = (ret = "return0" /\ "migrate" \in failedKinds)
    /\ pc' = "connect"
    /\ UNCHANGED <<disk, work, conn, inTxn, nfaults, vizDir>>

Start ==
    /\ pc \in {"idle", "done"}
    /\ runs < MaxRuns
    /\ runs' = runs + 1
    /\ db_exists' = disk.exists
    /\ pre' = disk
    /\ prevClean' = (ret = "return0" /\ ~failed)
    /\ ret' = "running"
    /\ written' = {}
    /\ table_count' = 0
    /\ record_count' = 0
    /\ order' = <<>>
    /\ failed' = FALSE
    /\ exc' = FALSE
    /\ opened' = FALSE
    /\ steps' = {}
    /\ failedKinds' = {}
    /\ raced' = {}
    /\ prevMigFailed' = (ret = "return0" /\ "migrate" \in failedKinds)
    /\ pc' = "connect"
    /\ UNCHANGED <<disk, work, conn, inTxn, nfaults, vizDir>>

\* mutant: the except clause of sqlite3.connect does not return
ConnectNoReturn ==
    /\ pc = "connect"
    /\ \E f \in Faults :
        /\ nfaults' = IF f THEN nfaults + 1 ELSE nfaults
        /\ IF f
             THEN /\ pc' = "write_connection_info"
                  /\ UNCHANGED <<disk, work, conn, opened, ret>>
             ELSE /\ disk' = IF disk.exists THEN disk ELSE EmptyDb
                  /\ work' = disk'
                  /\ conn' = TRUE
                  /\ opened' = TRUE
                  /\ ret' = ret
                  /\ pc' = "foreign_keys"
    /\ UNCHANGED <<inTxn, db_exists, exc, runs, vizDir, written, table_count,
                   record_count, order, failed, pre, prevClean, steps, failedKinds, raced,
                   prevMigFailed>>

\* sqlite3.connect(db_file): creates the file when it is missing
Connect ==
    /\ pc = "connect"
    /\ \E f \in Faults :
        /\ nfaults' = IF f THEN nfaults + 1 ELSE nfaults
        /\ IF f
             THEN /\ ret' = "return1"
                  /\ pc' = "done"
                  /\ UNCHANGED <<disk, work, conn, opened>>
             ELSE /\ disk' = IF disk.exists THEN disk ELSE EmptyDb
                  /\ work' = disk'
                  /\ conn' = TRUE
                  /\ opened' = TRUE
                  /\ ret' = ret
                  /\ pc' = "foreign_keys"
    /\ UNCHANGED <<inTxn, db_exists, exc, runs, vizDir, written, table_count,
                   record_count, order, failed, pre, prevClean, steps, failedKinds, raced,
                   prevMigFailed>>

\* _enable_foreign_keys: the failure is caught
EnableForeignKeys ==
    /\ pc = "foreign_keys"
    /\ \E f \in Faults :
        /\ Executed("stmt", f, f)
        /\ Goto(IF db_exists THEN "sanity" ELSE "base_app_info")
    /\ ReadOnly
    /\ Frame

\* conn.execute("SELECT 1"): the failure is caught
SanityCheck ==
    /\ pc = "sanity"
    /\ \E f \in Faults :
        /\ Executed("stmt", f, f)
        /\ Goto("mig_users")
    /\ ReadOnly
    /\ Frame

\* ------------------------------------------------- _create_base_schema
\* no statement of _create_base_schema is guarded: a failure propagates
BaseSeedPc == <<"base_seed1", "base_seed2", "base_seed3", "base_seed4">>

BaseCreateAppInfo ==
    /\ pc = "base_app_info"
    /\ \E f \in Faults :
        /\ Executed("stmt", f, f)
        /\ Schema(~f, CreateTableIfNotExists(work, "app_info", AppInfoCols))
        /\ IF f THEN Raise ELSE Goto("base_users")
    /\ Frame

BaseCreateUsers ==
    /\ pc = "base_users"
    /\ \E f \in Faults :
        /\ Executed("stmt", f, f)
        /\ Schema(~f, CreateTableIfNotExists(work, "users", UsersColsFull))
        /\ IF f THEN Raise ELSE Goto("base_idx_username")
    /\ Frame

BaseIndexUsername ==
    /\ pc = "base_idx_username"
    /\ \E f \in Faults :
        LET ok == ~f /\ CanCreateIndex(work, IdxUsername) IN
        /\ Executed("stmt", f, ~ok)
        /\ Schema(ok, CreateIndexIfNotExists(work, IdxUsername))
        /\ IF ok THEN Goto("base_idx_email") ELSE Raise
    /\ Frame

BaseIndexEmail ==
    /\ pc = "base_idx_email"
    /\ \E f \in Faults :
        LET ok == ~f /\ CanCreateIndex(work, IdxEmail) IN
        /\ Executed("stmt", f, ~ok)
        /\ Schema(ok, CreateIndexIfNotExists(work, IdxEmail))
        /\ IF ok THEN Goto("base_seed1") ELSE Raise
    /\ Frame

BaseSeed ==
    \E i \in 1..Len(SeedKeys) :
        /\ pc = BaseSeedPc[i]
        /\ \E f \in Faults :
            LET ok == ~f /\ CanInsertAppInfo(work) IN
            /\ Executed("stmt", f, ~ok)
            /\ Data(ok, InsertOrReplace(work, SeedKeys[i], SeedValues[i], runs))
            /\ IF ~ok THEN Raise
               ELSE Goto(IF i < Len(SeedKeys) THEN BaseSeedPc[i + 1] ELSE "commit")
        /\ Frame

\* ------------------------------------------------- _migrate_existing_db
MigSeedPc == <<"mig_seed1", "mig_seed2", "mig_seed3", "mig_seed4">>

\* mutant: the test of _table_exists(cursor, "users") is inverted
MigUsersExistsInverted ==
    /\ pc = "mig_users"
    /\ \E f \in Faults :
        /\ Executed("stmt", f, f)
        /\ IF f THEN Raise
           ELSE Goto(IF TableExists(work, "users") THEN "base_app_info"
                     ELSE "mig_has_password_hash")
    /\ ReadOnly
    /\ Frame

\* _table_exists(cursor, "users") is not guarded; without users the base
\* schema is created and _migrate_existing_db returns
MigUsersExists ==
    /\ pc = "mig_users"
    /\ \E f \in Faults :
        /\ Executed("stmt", f, f)
        /\ IF f THEN Raise
           ELSE Goto(IF TableExists(work, "users") THEN "mig_has_password_hash"
                     ELSE "base_app_info")
    /\ ReadOnly
    /\ Frame

\* _column_exists catches the failure and answers False
MigHasPasswordHash ==
    /\ pc = "mig_has_password_hash"
    /\ \E f \in Faults :
        /\ Executed("stmt", f, f)
        /\ Goto(IF ~f /\ ColumnExists(work, "users", "password_hash")
                THEN "mig_has_last_login" ELSE "mig_add_password_hash")
    /\ ReadOnly
    /\ Frame

\* ALTER TABLE users ADD COLUMN password_hash TEXT; a failure skips the UPDATE
MigAddPasswordHash ==
    /\ pc = "mig_add_password_hash"
    /\ \E f \in Faults :
        LET ok == ~f /\ CanAddColumn(work, "users", "password_hash") IN
        /\ Executed("stmt", f, ~ok)
        /\ Schema(ok, AddColumn(work, "users", "password_hash"))
        /\ Goto(IF ok THEN "mig_backfill" ELSE "mig_has_last_login")
    /\ Frame

\* mutant: the last_login block is an elif of the password_hash block
MigBackfillElif ==
    /\ pc = "mig_backfill"
    /\ \E f \in Faults :
        LET ok == ~f /\ ColumnExists(work, "users", "password_hash") IN
        /\ Executed("stmt", f, ~ok)
        /\ Data(ok, BackfillPasswordHash(work))
        /\ Goto("mig_has_idx_username")
    /\ Frame

\* UPDATE users SET password_hash = COALESCE(password_hash, '')
MigBackfill ==
    /\ pc = "mig_backfill"
    /\ \E f \in Faults :
        LET ok == ~f /\ ColumnExists(work, "users", "password_hash") IN
        /\ Executed("stmt", f, ~ok)
        /\ Data(ok, BackfillPasswordHash(work))
        /\ Goto("mig_has_last_login")
    /\ Frame

\* mutant: last_login is added without looking at what _column_exists answers
MigHasLastLoginIgnored ==
    /\ pc = "mig_has_last_login"
    /\ \E f \in Faults :
        /\ Executed("stmt", f, f)
        /\ Goto("mig_add_last_login")
    /\ ReadOnly
    /\ Frame

MigHasLastLogin ==
    /\ pc = "mig_has_last_login"
    /\ \E f \in Faults :
        /\ Executed("stmt", f, f)
        /\ Goto(IF ~f /\ ColumnExists(work, "users", "last_login")
                THEN "mig_has_idx_username" ELSE "mig_add_last_login")
    /\ ReadOnly
    /\ Frame

MigAddLastLogin ==
    /\ pc = "mig_add_last_login"
    /\ \E f \in Faults :
        LET ok == ~f /\ CanAddColumn(work, "users", "last_login") IN
        /\ Executed("stmt", f, ~ok)
        /\ Schema(ok, AddColumn(work, "users", "last_login"))
        /\ Goto("mig_has_idx_username")
    /\ Frame

\* _index_exists is not guarded
MigHasIdxUsername ==
    /\ pc = "mig_has_idx_username"
    /\ \E f \in Faults :
        /\ Executed("stmt", f, f)
        /\ IF f THEN Raise
           ELSE Goto(IF IndexExists(work, IdxUsername.name)
                     THEN "mig_has_idx_email" ELSE "mig_idx_username")
    /\ ReadOnly
    /\ Frame

MigIndexUsername ==
    /\ pc = "mig_idx_username"
    /\ \E f \in Faults :
        LET ok == ~f /\ CanCreateIndex(work, IdxUsername) IN
        /\ Executed("stmt", f, ~ok)
        /\ Schema(ok, CreateIndexIfNotExists(work, IdxUsername))
        /\ Goto("mig_has_idx_email")
    /\ Frame

MigHasIdxEmail ==
    /\ pc = "mig_has_idx_email"
    /\ \E f \in Faults :
        /\ Executed("stmt", f, f)
        /\ IF f THEN Raise
           ELSE Goto(IF IndexExists(work, IdxEmail.name)
                     THEN "mig_has_app_info" ELSE "mig_idx_email")
    /\ ReadOnly
    /\ Frame

MigIndexEmail ==
    /\ pc = "mig_idx_email"
    /\ \E f \in Faults :
        LET ok == ~f /\ CanCreateIndex(work, IdxEmail) IN
        /\ Executed("stmt", f, ~ok)
        /\ Schema(ok, CreateIndexIfNotExists(work, IdxEmail))
        /\ Goto("mig_has_app_info")
    /\ Frame

\* _table_exists(cursor, "app_info") is not guarded
MigHasAppInfo ==
    /\ pc = "mig_has_app_info"
    /\ \E f \in Faults :
        /\ Executed("stmt", f, f)
        /\ IF f THEN Raise
           ELSE Goto(IF TableExists(work, "app_info") THEN "mig_seed1"
                     ELSE "mig_app_info")
    /\ ReadOnly
    /\ Frame

MigCreateAppInfo ==
    /\ pc = "mig_app_info"
    /\ \E f \in Faults :
        /\ Executed("stmt", f, f)
        /\ Schema(~f, CreateTableIfNotExists(work, "app_info", AppInfoCols))
        /\ Goto("mig_seed1")
    /\ Frame

\* the four INSERT OR REPLACE statements share one try block: the first
\* failure skips the ones after it
MigSeed ==
    \E i \in 1..Len(SeedKeys) :
        /\ pc = MigSeedPc[i]
        /\ \E f \in Faults :
            LET ok == ~f /\ CanInsertAppInfo(work) IN
            /\ Executed("stmt", f, ~ok)
            /\ Data(ok, InsertOrReplace(work, SeedKeys[i], SeedValues[i], runs))
            /\ Goto(IF ok /\ i < Len(SeedKeys) THEN MigSeedPc[i + 1] ELSE "commit")
        /\ Frame

\* another invocation of the script creates an index after this run has found
\* it missing and before this run's CREATE INDEX; it can write only while this
\* connection holds no transaction
OtherInvocationCreatesIndex ==
    \E i \in {IdxUsername, IdxEmail} :
        /\ pc = (IF i = IdxUsername THEN "mig_idx_username" ELSE "mig_idx_email")
        /\ conn
        /\ ~inTxn
        /\ ~IndexExists(disk, i.name)
        /\ CanCreateIndex(disk, i)
        /\ disk' = CreateIndexIfNotExists(disk, i)
        /\ work' = disk'
        /\ raced' = raced \cup {i.name}
        /\ UNCHANGED <<conn, inTxn, pc, db_exists, exc, ret, runs, nfaults, vizDir,
                       written, table_count, record_count, order, failed, pre,
                       prevClean, opened, steps, failedKinds, prevMigFailed>>

\* ------------------------------------------------------ main, continued
\* conn.commit(): not guarded
Commit ==
    /\ pc = "commit"
    /\ \E f \in Faults :
        /\ Executed("commit", f, f)
        /\ disk' = IF f THEN disk ELSE work
        /\ inTxn' = IF f THEN inTxn ELSE FALSE
        /\ work' = work
        /\ IF f THEN Raise ELSE Goto("stat_tables")
    /\ Frame

\* SELECT COUNT(*) FROM sqlite_master WHERE type='table' AND name NOT LIKE 'sqlite_%'
CountTables(db) == Cardinality(DOMAIN db.tab)

\* SELECT COUNT(*) FROM app_info
CountRecords(db) == Cardinality(db.tab["app_info"].rows)

StatTables ==
    /\ pc = "stat_tables"
    /\ \E f \in Faults :
        /\ Executed("stat", f, f)
        /\ table_count' = IF f THEN 0 ELSE CountTables(work)
        /\ Goto("stat_records")
    /\ ReadOnly
    /\ UNCHANGED <<conn, db_exists, ret, runs, vizDir, written, record_count, pre,
                   prevClean, opened, raced, prevMigFailed>>

StatRecords ==
    /\ pc = "stat_records"
    /\ \E f \in Faults :
        LET ok == ~f /\ TableExists(work, "app_info") IN
        /\ Executed("stat", f, ~ok)
        /\ record_count' = IF ok THEN CountRecords(work) ELSE 0
        /\ Goto("close")
    /\ ReadOnly
    /\ UNCHANGED <<conn, db_exists, ret, runs, vizDir, written, table_count, pre,
                   prevClean, opened, raced, prevMigFailed>>

\* finally: conn.close() rolls back a transaction that was not committed; an
\* exception then leaves main
Close ==
    /\ pc = "close"
    /\ Note("close")
    /\ conn' = FALSE
    /\ inTxn' = FALSE
    /\ work' = NoFile
    /\ IF exc THEN pc' = "done" /\ ret' = "raised"
       ELSE pc' = "write_connection_info" /\ ret' = ret
    /\ UNCHANGED <<disk, db_exists, exc, runs, nfaults, vizDir, written, table_count,
                   record_count, failed, pre, prevClean, opened, steps, failedKinds, raced,
                   prevMigFailed>>

\* _write_connection_info: the failure is caught
WriteConnectionInfo ==
    /\ pc = "write_connection_info"
    /\ \E f \in Faults :
        /\ nfaults' = IF f THEN nfaults + 1 ELSE nfaults
        /\ written' = IF f THEN written ELSE written \cup {"db_connection.txt"}
    /\ pc' = "write_sqlite_env"
    /\ UNCHANGED <<disk, work, conn, inTxn, db_exists, exc, ret, runs, vizDir,
                   table_count, record_count, order, failed, pre, prevClean, opened,
                   steps, failedKinds, raced, prevMigFailed>>

\* _write_sqlite_env: os.makedirs is not guarded, the write of the file is;
\* then main prints its report and returns 0
WriteSqliteEnv ==
    /\ pc = "write_sqlite_env"
    /\ \E f \in Faults, mk \in BOOLEAN :
        /\ f => (mk => ~vizDir)
        /\ ~f => ~mk
        /\ nfaults' = IF f THEN nfaults + 1 ELSE nfaults
        /\ vizDir' = IF f /\ mk THEN vizDir ELSE TRUE
        /\ written' = IF f THEN written ELSE written \cup {"sqlite.env"}
        /\ ret' = IF f /\ mk THEN "raised" ELSE "return0"
    /\ pc' = "done"
    /\ UNCHANGED <<disk, work, conn, inTxn, db_exists, exc, runs, table_count,
                   record_count, order, failed, pre, prevClean, opened, steps, failedKinds, raced,
                   prevMigFailed>>

Next ==
    \/ Start
    \/ Connect
    \/ EnableForeignKeys
    \/ SanityCheck
    \/ BaseCreateAppInfo
    \/ BaseCreateUsers
    \/ BaseIndexUsername
    \/ BaseIndexEmail
    \/ BaseSeed
    \/ MigUsersExists
    \/ MigHasPasswordHash
    \/ MigAddPasswordHash
    \/ MigBackfill
    \/ MigHasLastLogin
    \/ MigAddLastLogin
    \/ MigHasIdxUsername
    \/ MigIndexUsername
    \/ MigHasIdxEmail
    \/ MigIndexEmail
    \/ MigHasAppInfo
    \/ MigCreateAppInfo
    \/ MigSeed
    \/ OtherInvocationCreatesIndex
    \/ Commit
    \/ StatTables
    \/ StatRecords
    \/ Close
    \/ WriteConnectionInfo
    \/ WriteSqliteEnv

Spec == Init /\ [][Next]_vars

\* ---------------------------------------------------------- properties
TableNames(db) == DOMAIN db.tab
ColumnNames(db, t) == DOMAIN db.tab[t].cols
Rows(db, t) == IF TableExists(db, t) THEN db.tab[t].rows ELSE {}

\* tables, columns of each table, indexes
SchemaOf(db) ==
    [tables |-> TableNames(db),
     columns |-> [t \in TableNames(db) |-> ColumnNames(db, t)],
     indexes |-> db.idx]

\* the same, with the NOT NULL constraint of every column
ConstrainedSchemaOf(db) ==
    [tables |-> TableNames(db),
     columns |-> [t \in TableNames(db) |-> db.tab[t].cols],
     indexes |-> db.idx]

TargetTables == {"app_info", "users"}
TargetIndexes ==
    {[name |-> "idx_users_username", tbl |-> "users", col |-> "username"],
     [name |-> "idx_users_email", tbl |-> "users", col |-> "email"]}
TargetUsersCols ==
    [id |-> FALSE, username |-> TRUE, email |-> TRUE, password_hash |-> TRUE,
     last_login |-> FALSE, created_at |-> FALSE]
TargetAppInfoCols ==
    [id |-> FALSE, key |-> TRUE, value |-> FALSE, created_at |-> FALSE]
LegacyUsersColumns == {"id", "username", "email", "created_at"}
SeedPairs ==
    {<<"project_name", "dsp_db">>, <<"version", "0.1.0">>, <<"author", "John Doe">>,
     <<"description", "">>}

TargetSchema ==
    [tables |-> TargetTables,
     columns |-> [t \in TargetTables |->
                    IF t = "users" THEN DOMAIN TargetUsersCols
                    ELSE DOMAIN TargetAppInfoCols],
     indexes |-> TargetIndexes]

TargetConstrainedSchema ==
    [tables |-> TargetTables,
     columns |-> [t \in TargetTables |->
                    IF t = "users" THEN TargetUsersCols ELSE TargetAppInfoCols],
     indexes |-> TargetIndexes]

\* a file whose only table is users(id, username, email, created_at)
IsLegacy(db) ==
    /\ db.exists
    /\ TableNames(db) = {"users"}
    /\ ColumnNames(db, "users") = LegacyUsersColumns

RunEnded == pc = "done"

\* the run returned 0 and none of its statements failed
RunClean == RunEnded /\ ret = "return0" /\ ~failed

\* C1: a run that follows a run in which nothing failed leaves the schema
\* (tables, columns of each table, indexes) as that run left it
C1_SchemaIdempotent ==
    (RunEnded /\ prevClean) => SchemaOf(disk) = SchemaOf(pre)

C1_Witness ==
    /\ RunClean
    /\ prevClean
    /\ runs >= 2
    /\ SchemaOf(disk) = TargetSchema
    /\ pre.seq < disk.seq

\* C2: a clean run on a legacy users-only file ends with app_info and users,
\* the six columns, both indexes, and every row that was there with
\* password_hash '' and last_login NULL
C2_LegacyConverges ==
    (RunClean /\ IsLegacy(pre)) =>
        /\ TargetTables \subseteq TableNames(disk)
        /\ ColumnNames(disk, "users") = DOMAIN TargetUsersCols
        /\ TargetIndexes \subseteq disk.idx
        /\ \A r \in Rows(pre, "users") :
              \E q \in Rows(disk, "users") :
                  /\ q.id = r.id
                  /\ q.password_hash = ""
                  /\ q.last_login = Null

C2_Witness ==
    /\ RunClean
    /\ IsLegacy(pre)
    /\ Rows(pre, "users") # {}
    /\ pre.idx = {}

\* C3: at the end of every run that returned, a users table with a
\* password_hash column has no row whose password_hash is NULL
C3_NoNullPasswordHash ==
    (RunEnded /\ ret = "return0" /\ ColumnExists(disk, "users", "password_hash")) =>
        \A r \in Rows(disk, "users") : r.password_hash # Null

C5_FreshFile ==
    (RunClean /\ ~pre.exists) =>
        /\ TargetTables \subseteq TableNames(disk)
        /\ ColumnNames(disk, "users") = DOMAIN TargetUsersCols
        /\ IndexExists(disk, "idx_users_username")
        /\ IndexExists(disk, "idx_users_email")

C5_Witness == RunClean /\ ~pre.exists /\ disk.exists /\ runs = 1

\* C6: whatever fails, the file never loses a table, a column or an index, and
\* every users row stays with its id, username, email and created_at
Grows(a, b) ==
    \/ a = b
    \/ /\ a.exists => b.exists
       /\ TableNames(a) \subseteq TableNames(b)
       /\ \A t \in TableNames(a) : ColumnNames(a, t) \subseteq ColumnNames(b, t)
       /\ a.idx \subseteq b.idx
       /\ \A r \in Rows(a, "users") :
             \E q \in Rows(b, "users") :
                 /\ q.id = r.id
                 /\ q.username = r.username
                 /\ q.email = r.email
                 /\ q.created_at = r.created_at

C6_SchemaOnlyGrows == runs > 0 => (Grows(pre, disk) /\ (conn => Grows(disk, work)))

C6_Witness ==
    /\ RunEnded
    /\ IsLegacy(pre)
    /\ Rows(pre, "users") # {}
    /\ SchemaOf(disk) # SchemaOf(pre)
    /\ failed

\* C7: a run ends with exit code 1 exactly when the connection could not be
\* opened, and with exit code 0 whenever it was opened
C7_ExitCode ==
    RunEnded => (IF opened THEN ret = "return0" ELSE ret = "return1")

\* C8: app_info never holds two rows with one key, and after a clean run each
\* of the four seed keys has its one row, with the seeded value
UniqueKeys(db) ==
    \A r, q \in Rows(db, "app_info") : r.key = q.key => r = q

C8_SeedUpsert ==
    /\ UniqueKeys(disk)
    /\ UniqueKeys(work)
    /\ RunClean =>
          \A kv \in SeedPairs :
              \E r \in Rows(disk, "app_info") : r.key = kv[1] /\ r.value = kv[2]

C8_Witness ==
    /\ RunClean
    /\ \E r \in Rows(pre, "app_info") : r.key = "version" /\ r.value # "0.1.0"
    /\ \E r \in Rows(pre, "app_info") : r.key \notin {kv[1] : kv \in SeedPairs}

\* C9: a run whose connection could not be opened returns 1 and has executed
\* no statement, committed nothing, left the file as it was and written
\* neither db_connection.txt nor sqlite.env
C9_ConnectFailure ==
    (RunEnded /\ ~opened) =>
        /\ ret = "return1"
        /\ order = <<>>
        /\ disk = pre
        /\ written = {}

C9_Witness == RunEnded /\ ~opened /\ runs > 0 /\ ~pre.exists

\* C10: every run that opened the connection executes its statements, then
\* commits once, then gathers the statistics, then closes
C10_CommittedOnce ==
    (RunEnded /\ opened) => order = <<"stmt", "commit", "stat", "close">>

\* C11: with no statement made to fail, a run on a file that has
\* idx_users_username, or that gets it from another invocation between this
\* run's _index_exists and its CREATE INDEX, returns 0 with no failed
\* statement and leaves one index of that name
IndexCount(db, n) == Cardinality({i \in db.idx : i.name = n})

C11_ExistingIndexTolerated ==
    (/\ RunEnded
     /\ opened
     /\ nfaults = 0
     /\ IndexExists(pre, "idx_users_username") \/ "idx_users_username" \in raced) =>
        /\ ret = "return0"
        /\ ~failed
        /\ IndexCount(disk, "idx_users_username") = 1

C11_Witness ==
    /\ RunEnded
    /\ nfaults = 0
    /\ "idx_users_username" \in raced
    /\ "mig_idx_username" \in steps
    /\ ~IndexExists(pre, "idx_users_username")

\* C12: when a structural step of either path fails (and nothing else does),
\* the failure is caught and every step of that path is attempted, up to the
\* commit
StructuralFailureOnly ==
    /\ failedKinds # {}
    /\ failedKinds \subseteq {"base", "migrate"}

C12_StepsIndependent ==
    (RunEnded /\ opened /\ StructuralFailureOnly) =>
        IF "base_app_info" \in steps
          THEN {"base_app_info", "base_users", "base_idx_username", "base_idx_email",
                "base_seed1", "commit"} \subseteq steps
          ELSE {"mig_has_password_hash", "mig_has_last_login", "mig_has_idx_username",
                "mig_has_idx_email", "mig_has_app_info", "mig_seed1", "commit"}
                   \subseteq steps

\* C13: when an inspection (_table_exists, _column_exists, _index_exists)
\* fails, the run goes on with the creation the inspection guards
CreationAfter ==
    [mig_users |-> "base_app_info",
     mig_has_password_hash |-> "mig_add_password_hash",
     mig_has_last_login |-> "mig_add_last_login",
     mig_has_idx_username |-> "mig_idx_username",
     mig_has_idx_email |-> "mig_idx_email",
     mig_has_app_info |-> "mig_app_info"]

InspectionFails ==
    /\ pc \in DOMAIN CreationAfter
    /\ nfaults' = nfaults + 1
    /\ "inspect" \in failedKinds'

C13_InspectionFailureTolerated ==
    [][InspectionFails => (pc' = CreationAfter[pc] /\ ~exc')]_vars

\* C14: the statements of _create_base_schema run only when users was absent
\* when the run started and the incremental ones only when it was present; a
\* clean run without users executes all of _create_base_schema and ends in the
\* target schema; a table other than users and app_info keeps its columns and
\* rows
IncrementalSteps == MigSteps \cup (InspectSteps \ {"mig_users"})

C14_PathByUsersTable ==
    /\ steps \cap BaseSteps # {} => ~TableExists(pre, "users")
    /\ steps \cap IncrementalSteps # {} => TableExists(pre, "users")
    /\ (RunClean /\ ~TableExists(pre, "users")) =>
          /\ BaseSteps \subseteq steps
          /\ TargetTables \subseteq TableNames(disk)
          /\ disk.tab["users"].cols = TargetUsersCols
          /\ disk.tab["app_info"].cols = TargetAppInfoCols
          /\ disk.idx = TargetIndexes
    /\ (RunClean /\ TableExists(pre, "users")) =>
          "mig_has_password_hash" \in steps
    /\ (runs > 0 /\ TableExists(pre, "notes")) =>
          /\ TableExists(disk, "notes")
          /\ disk.tab["notes"] = pre.tab["notes"]

C14_Witness ==
    /\ RunClean
    /\ pre.exists
    /\ TableNames(pre) = {"app_info", "notes"}
    /\ "sanity" \in steps
    /\ "base_users" \in steps

\* C15: in a run on the incremental path that reaches the commit with no
\* failed inspection, both columns are looked for, ALTER TABLE ADD COLUMN is
\* executed for exactly the columns that were missing, and on a file in the
\* target shape no ADD COLUMN and no CREATE INDEX is executed
InTargetShape(db) ==
    /\ TargetTables \subseteq TableNames(db)
    /\ ColumnNames(db, "users") = DOMAIN TargetUsersCols
    /\ TargetIndexes \subseteq db.idx

C15_AddOnlyMissing ==
    (/\ RunEnded
     /\ "commit" \in steps
     /\ "inspect" \notin failedKinds
     /\ TableExists(pre, "users")) =>
        /\ {"mig_has_password_hash", "mig_has_last_login"} \subseteq steps
        /\ "mig_add_password_hash" \in steps
              <=> ~ColumnExists(pre, "users", "password_hash")
        /\ "mig_add_last_login" \in steps
              <=> ~ColumnExists(pre, "users", "last_login")
        /\ InTargetShape(pre) =>
              steps \cap {"mig_add_password_hash", "mig_add_last_login",
                          "mig_idx_username", "mig_idx_email", "base_idx_username",
                          "base_idx_email"} = {}

C15_Witness ==
    /\ RunEnded
    /\ "commit" \in steps
    /\ "inspect" \notin failedKinds
    /\ ColumnExists(pre, "users", "password_hash")
    /\ ~ColumnExists(pre, "users", "last_login")
    /\ "mig_add_last_login" \in steps
    /\ "mig_add_password_hash" \notin steps

\* C16: a clean run that follows a run of the incremental path which returned
\* with failed steps ends in the target state: both columns, both indexes,
\* app_info with the four seed rows, no users row with a NULL password_hash
C16_RecoversAfterFailedRun ==
    (RunClean /\ prevMigFailed) =>
        /\ InTargetShape(disk)
        /\ \A kv \in SeedPairs :
              \E r \in Rows(disk, "app_info") : r.key = kv[1] /\ r.value = kv[2]
        /\ \A r \in Rows(disk, "users") : r.password_hash # Null

\* the users rows of old whose password_hash is not NULL have the same value in
\* db, and the app_info rows of old under a key that is not seeded are rows of db
KeepsData(old, db) ==
    /\ \A r \in Rows(old, "users") :
          ("password_hash" \in DOMAIN r /\ r.password_hash # Null) =>
              \E s \in Rows(db, "users") :
                  /\ s.id = r.id
                  /\ "password_hash" \in DOMAIN s
                  /\ s.password_hash = r.password_hash
    /\ \A r \in Rows(old, "app_info") :
          r.key \notin {"project_name", "version", "author", "description"} =>
              r \in Rows(db, "app_info")

\* C17: at every point of a run, the file and the open connection still hold
\* every non-NULL password_hash and every app_info row under a key that is not
\* seeded, as they were when the run started
C17_ExistingDataKept ==
    runs > 0 => (KeepsData(pre, disk) /\ (conn => KeepsData(pre, work)))

C17_Witness ==
    /\ RunClean
    /\ \E r \in Rows(pre, "users") :
          "password_hash" \in DOMAIN r /\ r.password_hash # Null
    /\ \E r \in Rows(pre, "app_info") : r.key = "theme"
    /\ {"mig_add_last_login", "mig_seed4"} \subseteq steps

StatSteps == {"stat_tables", "stat_records"}

\* a run on a file that did not exist sees the flag unset and executes the
\* fresh path only; a statistic that failed is reported as zero, and the run
\* still ends with exit code 0 unless os.makedirs raises afterwards
FreshPathAndZeroCounts ==
    /\ (opened /\ ~pre.exists) =>
          /\ ~db_exists
          /\ steps \cap ({"sanity"} \cup InspectSteps \cup MigSteps) = {}
          /\ "commit" \in steps => BaseSteps \subseteq steps
    /\ "stat_tables" \in failedKinds => table_count = 0
    /\ "stat_records" \in failedKinds => record_count = 0
    /\ (RunEnded /\ failedKinds \cap StatSteps # {}) =>
          (ret = "return0" \/ (ret = "raised" /\ ~vizDir))

StatisticFails == pc \in StatSteps /\ pc \in failedKinds'

\* the failure of a statistic leaves the file alone, raises nothing and goes on
\* to the next statement
StatisticFailureTolerated ==
    StatisticFails =>
        /\ disk' = disk
        /\ ~exc'
        /\ pc' = (IF pc = "stat_tables" THEN "stat_records" ELSE "close")

\* C18: the flag is read before connecting, so a file that did not exist is
\* handled by the fresh path; a failed statistic is reported as zero and changes
\* neither the exit code nor the committed state
C18_FlagBeforeConnectStatsDegrade ==
    []FreshPathAndZeroCounts /\ [][StatisticFailureTolerated]_vars

C18_Witness ==
    /\ RunEnded
    /\ opened
    /\ ~pre.exists
    /\ disk.exists
    /\ failedKinds = StatSteps
    /\ ret = "return0"

====
